---- MODULE Spec2Model ----
(***************************************************************************)
(* SpaarApp: the CSV import flow of the frontend (CsvImport and the two    *)
(* Transactions pages), the two service layers (services/api and           *)
(* services/apiWithFallback with its in-memory mock store), the budget     *)
(* status display, the sample-data import script, the rule-based           *)
(* categorisation, the notifications, the totals of the pages, the error   *)
(* boundary and the Categories page.                                       *)
(*                                                                         *)
(* Money is held in euro cents (the source uses JavaScript numbers).       *)
(* Percentages and thresholds are whole percents.                          *)
(***************************************************************************)
EXTENDS Integers, Sequences, FiniteSets, TLC

VARIABLES
    page,             \* which Transactions page is routed: "mui" | "tw"
    transactions,     \* the page's `transactions` state (the displayed list)
    showImport,       \* the page's `showImport` state
    notifications,    \* Tailwind page: the notifications added (import flow: the
                      \* number of transactions each message reports)
    pendingLoads,     \* Tailwind page: loadData() calls awaiting getAll()
    imp,              \* the CsvImport instances mounted so far
    cur,              \* index of the mounted CsvImport instance, 0 if none
    overlap,          \* history: two imports have been in flight together
    useMock,          \* shouldUseMockData()
    mockTransactions, \* mockData.mockTransactions (the in-memory store)
    mockBudgets,      \* mockData.mockBudgets
    now,              \* Date.now()
    ret,              \* what the last service call handed to its caller
    importLog,        \* history: per file, the results of appApi.importCsv
    csvFile,          \* sample script: lines of transactions-sample.csv
    seedBudgets,      \* sample script: budgets of seed-data.json
    outTransactions,  \* sample script: exported transactions.json
    outBudgets,       \* sample script: exported seed-data.json budgets
    flags,            \* sample script: importCsv and importJson of the last run
    timeouts,         \* Notifications: the pending timeout of each NotificationItem
    boundary,         \* ErrorBoundary: this.state (and import.meta.env.DEV)
    categoriesPage    \* Categories page: its state, the delete calls awaited and
                      \* (history) the calls made and the handler last invoked

vars == <<page, transactions, showImport, notifications, pendingLoads, imp, cur,
          overlap, useMock, mockTransactions, mockBudgets, now, ret, importLog,
          csvFile, seedBudgets, outTransactions, outBudgets, flags, timeouts,
          boundary, categoriesPage>>

uiVars == <<page, transactions, showImport, notifications, pendingLoads, imp,
            cur, overlap>>
apiVars == <<useMock, mockTransactions, mockBudgets, now, ret, importLog>>
scriptVars == <<csvFile, seedBudgets, outTransactions, outBudgets, flags>>
shellVars == <<timeouts, boundary, categoriesPage>>

----------------------------------------------------------------------------
(* Bounds of the model *)

MaxImports == 2     \* CsvImport instances mounted in one run
MaxBatch == 2       \* transactions in one parse result / lines in one file
MaxNow == 2         \* clock readings
MaxStore == 3       \* entries the mock stores may grow to
MaxCalls == 2       \* appApi.importCsv calls in one run
MaxBudgets == 3     \* entries mockBudgets may grow to
MaxLines == 2       \* data lines of transactions-sample.csv

----------------------------------------------------------------------------
(* Data: a few of the mock records of mockData.ts, amounts in cents *)

Rows == {1, 2, 3}

\* the content of a bank row: 1 Albert Heijn, 2 NS Vervoer, 3 Salaris Januari
RowAmount(r) == CASE r = 1 -> -8745 [] r = 2 -> -12550 [] OTHER -> 285000
RowType(r) == IF r = 3 THEN "credit" ELSE "debit"
RowCategory(r) == CASE r = 1 -> "cat-1" [] r = 2 -> "cat-4" [] OTHER -> "none"

Tx(id, r) ==
    [id |-> id, fp |-> r, amount |-> RowAmount(r),
     transaction_type |-> RowType(r), category_id |-> RowCategory(r)]

MockTransactionsInit == << Tx(<<"txn", 1, 0>>, 1), Tx(<<"txn", 4, 0>>, 2) >>

Budget(id, cat, amount, spent, remaining, threshold) ==
    [id |-> id, category_id |-> cat, amount |-> amount, spent |-> spent,
     remaining |-> remaining, notification_threshold |-> threshold]

\* the period fields of a Budget. Dates are days counted from 2024-01-01;
\* the optional end_date is <<>> when absent and <<day>> when set.
WithPeriod(budget, period, start_date, end_date, is_active) ==
    [f \in DOMAIN budget \cup {"period", "start_date", "end_date", "is_active"}
       |-> CASE f = "period" -> period
             [] f = "start_date" -> start_date
             [] f = "end_date" -> end_date
             [] f = "is_active" -> is_active
             [] OTHER -> budget[f]]

\* bud-1 and bud-2: monthly, 2024-01-01 to 2024-01-31, is_active: true
MockBudgetsInit ==
    << WithPeriod(Budget(<<"bud", 1, 0>>, "cat-1", 60000, 32515, 27485, 80),
                  "monthly", 0, <<30>>, TRUE),
       WithPeriod(Budget(<<"bud", 2, 0>>, "cat-4", 20000, 19070, 930, 90),
                  "monthly", 0, <<30>>, TRUE) >>

----------------------------------------------------------------------------
(* Helpers *)

RECURSIVE SeqsUpTo(_, _)
SeqsUpTo(S, n) ==
    IF n = 0 THEN { <<>> }
    ELSE LET shorter == SeqsUpTo(S, n - 1)
         IN shorter \cup { Append(s, x) : s \in shorter, x \in S }

Range(s) == { s[k] : k \in DOMAIN s }

RECURSIVE SumSeq(_)
SumSeq(s) == IF s = <<>> THEN 0 ELSE Head(s) + SumSeq(Tail(s))

Abs(x) == IF x < 0 THEN -x ELSE x

\* the entries of a list that carry fingerprint or id of t
Copies(list, t) ==
    Cardinality({ k \in DOMAIN list : list[k].id = t.id \/ list[k].fp = t.fp })

----------------------------------------------------------------------------
(* CsvImport component (components/CsvImport.tsx) *)

\* the bank rows of the imported file: the Albert Heijn payment that the
\* store holds already, any number of times
ImportRows == {1}

\* the transactions parsed from a sequence of rows, each with an id of its own
ParsedBatch(rows) ==
    [k \in DOMAIN rows |-> Tx(<<"imp", rows[k], k>>, rows[k])]

\* a CsvImportResult as csvApi.parseContent of services/api resolves to
\* (errors is the length of result.errors: none, or one rejected row)
CsvImportResult ==
    [transactions : { ParsedBatch(rows) : rows \in SeqsUpTo(ImportRows, MaxBatch) },
     errors : {0, 1}]

NoResult == [transactions |-> <<>>, errors |-> 0]

\* useState initial values of a freshly mounted CsvImport
CsvImportMount ==
    [mounted |-> TRUE, file |-> FALSE, preview |-> FALSE, step |-> "upload",
     isLoading |-> FALSE, error |-> FALSE, progress |-> 0, pc |-> "idle",
     interval |-> FALSE, timeout |-> FALSE, result |-> NoResult,
     cancelled |-> FALSE, called |-> 0]

\* unmounting discards the component's React state; its pending promise and
\* timers, and the closures they hold, live on
Unmount(s) ==
    [s EXCEPT !.mounted = FALSE, !.file = FALSE, !.preview = FALSE,
              !.step = "upload", !.isLoading = FALSE, !.error = FALSE,
              !.progress = 0]

InFlight(i) == imp[i].pc \in {"parsing", "timers"}

\* a state update of instance i: React drops updates of an unmounted component
SetState(i, upd) == IF imp[i].mounted THEN upd ELSE imp[i]

----------------------------------------------------------------------------
(* Transactions pages: handleImportComplete and loadData *)

\* transactionsApi.getAll() of services/apiWithFallback: the mock store, both
\* when shouldUseMockData() and when the backend call is caught
GetAllTransactions == mockTransactions

\* variants of the handlers below that a slip would produce: only the head of
\* the batch is shown; the Tailwind page shows the batch itself, before or
\* after its list
HeadOfBatchOnly(list, importedTransactions) ==
    IF importedTransactions = <<>> THEN list
    ELSE <<Head(importedTransactions)>> \o list
PrependBatch(list, importedTransactions) == importedTransactions \o list
AppendBatch(list, importedTransactions) == list \o importedTransactions

\* components/Transactions.tsx (Material-UI): the batch is put before the list
HandleImportCompleteMui(list, importedTransactions) ==
    importedTransactions \o list

\* components/Transactions.tsx (Tailwind): the list is left to loadData()
HandleImportCompleteTw(list, importedTransactions) == list

\* onImportComplete?.(result.transactions), called by instance i; the toast of
\* the Material-UI page is kept in notifications like the Tailwind page's
\* notification, as the number of transactions its message reports
OnImportComplete(i, importedTransactions) ==
    IF page = "mui"
    THEN /\ transactions' =
                HandleImportCompleteMui(transactions, importedTransactions)
         /\ showImport' = FALSE
         /\ notifications' = Append(notifications, Len(importedTransactions))
         /\ UNCHANGED <<pendingLoads, cur>>
    ELSE /\ transactions' =
                HandleImportCompleteTw(transactions, importedTransactions)
         /\ notifications' = Append(notifications, Len(importedTransactions))
         /\ showImport' = FALSE
         /\ cur' = 0
         /\ pendingLoads' = pendingLoads + 1

\* loadData(): getAll() resolves and the list is replaced by what it returned.
\* The Material-UI page renders CsvImport only once loading has ended.
LoadDataReturn ==
    /\ pendingLoads > 0
    /\ pendingLoads' = pendingLoads - 1
    /\ transactions' = GetAllTransactions
    /\ IF page = "mui" /\ imp = <<>>
       THEN imp' = <<CsvImportMount>> /\ cur' = 1
       ELSE UNCHANGED <<imp, cur>>
    /\ UNCHANGED <<page, showImport, notifications, overlap>>
    /\ UNCHANGED <<apiVars, scriptVars, shellVars>>

\* onClick={() => setShowImport(true)}: the Tailwind page mounts a new CsvImport
OpenImport ==
    /\ ~showImport
    /\ showImport' = TRUE
    /\ IF page = "tw"
       THEN /\ Len(imp) < MaxImports
            /\ imp' = Append(imp, CsvImportMount)
            /\ cur' = Len(imp) + 1
       ELSE /\ imp # <<>>
            /\ UNCHANGED <<imp, cur>>
    /\ UNCHANGED <<page, transactions, notifications, pendingLoads, overlap>>
    /\ UNCHANGED <<apiVars, scriptVars, shellVars>>

\* the Annuleren button: onCancel={() => setShowImport(false)}, Tailwind only
\* (the Material-UI page passes no onCancel, so the button is not rendered)
Cancel ==
    /\ page = "tw"
    /\ cur # 0
    /\ showImport' = FALSE
    /\ imp' = [imp EXCEPT ![cur] =
                 [Unmount(imp[cur]) EXCEPT !.cancelled = (imp[cur].pc # "done")]]
    /\ cur' = 0
    /\ UNCHANGED <<page, transactions, notifications, pendingLoads, overlap>>
    /\ UNCHANGED <<apiVars, scriptVars, shellVars>>

----------------------------------------------------------------------------
(* CsvImport handlers *)

\* processFile(file) up to its first await
ProcessFile ==
    /\ cur # 0
    /\ imp[cur].step = "upload" /\ ~imp[cur].isLoading /\ imp[cur].pc = "idle"
    /\ imp' = [imp EXCEPT ![cur] = [@ EXCEPT !.file = TRUE, !.error = FALSE,
                                             !.isLoading = TRUE,
                                             !.pc = "validating"]]
    /\ UNCHANGED <<page, transactions, showImport, notifications, pendingLoads,
                   cur, overlap>>
    /\ UNCHANGED <<apiVars, scriptVars, shellVars>>

\* processFile(file) after validateStructure / previewContent have settled
ProcessFileDone(i, outcome) ==
    /\ imp[i].pc = "validating"
    /\ LET s == imp[i]
           upd == CASE outcome = "invalid" ->
                         [s EXCEPT !.error = TRUE, !.isLoading = FALSE]
                    [] outcome = "preview" ->
                         [s EXCEPT !.preview = TRUE, !.step = "preview",
                                   !.isLoading = FALSE]
                    [] outcome = "previewErrors" ->
                         [s EXCEPT !.preview = TRUE, !.error = TRUE,
                                   !.step = "preview", !.isLoading = FALSE]
                    [] OTHER ->
                         [s EXCEPT !.error = TRUE, !.isLoading = FALSE]
       IN imp' = [imp EXCEPT ![i] = [SetState(i, upd) EXCEPT !.pc = "idle"]]
    /\ UNCHANGED <<page, transactions, showImport, notifications, pendingLoads,
                   cur, overlap>>
    /\ UNCHANGED <<apiVars, scriptVars, shellVars>>

\* the "Nog een bestand" button of the preview step
ChooseAnother ==
    /\ cur # 0
    /\ imp[cur].step = "preview" /\ imp[cur].preview
    /\ imp' = [imp EXCEPT ![cur] = [@ EXCEPT !.step = "upload",
                                             !.preview = FALSE,
                                             !.file = FALSE]]
    /\ UNCHANGED <<page, transactions, showImport, notifications, pendingLoads,
                   cur, overlap>>
    /\ UNCHANGED <<apiVars, scriptVars, shellVars>>

\* handleImport up to its awaits (the button is disabled while isLoading)
HandleImport ==
    /\ cur # 0
    /\ imp[cur].step = "preview" /\ imp[cur].preview /\ ~imp[cur].isLoading
    /\ imp[cur].file
    /\ imp' = [imp EXCEPT ![cur] = [@ EXCEPT !.isLoading = TRUE,
                                             !.step = "processing",
                                             !.progress = 0,
                                             !.pc = "parsing"]]
    /\ overlap' = (overlap \/ \E j \in DOMAIN imp : j # cur /\ InFlight(j))
    /\ UNCHANGED <<page, transactions, showImport, notifications, pendingLoads,
                   cur>>
    /\ UNCHANGED <<apiVars, scriptVars, shellVars>>

\* csvApi.parseContent resolved: the interval and the timeout are set
ParseReturn(i, result) ==
    /\ imp[i].pc = "parsing"
    /\ imp' = [imp EXCEPT ![i] = [@ EXCEPT !.result = result,
                                           !.interval = TRUE,
                                           !.timeout = TRUE,
                                           !.pc = "timers"]]
    /\ UNCHANGED <<page, transactions, showImport, notifications, pendingLoads,
                   cur, overlap>>
    /\ UNCHANGED <<apiVars, scriptVars, shellVars>>

\* file.text() or csvApi.parseContent rejected: the catch branch
ParseThrow(i) ==
    /\ imp[i].pc = "parsing"
    /\ imp' = [imp EXCEPT ![i] =
                 [SetState(i, [imp[i] EXCEPT !.error = TRUE,
                                             !.isLoading = FALSE])
                    EXCEPT !.pc = "failed"]]
    /\ UNCHANGED <<page, transactions, showImport, notifications, pendingLoads,
                   cur, overlap>>
    /\ UNCHANGED <<apiVars, scriptVars, shellVars>>

\* a setProgress updater that adds ten whatever the value
AlwaysAddTen(prev) == prev + 10

\* the setProgress updater of the 100 ms interval
ProgressUpdater(prev) == IF prev >= 90 THEN prev ELSE prev + 10

\* one firing of the interval; the updater runs only for a mounted component
IntervalTick(i) ==
    /\ imp[i].interval /\ imp[i].mounted
    /\ imp' = [imp EXCEPT ![i] =
                 [@ EXCEPT !.progress = ProgressUpdater(imp[i].progress),
                           !.interval = (imp[i].progress < 90)]]
    /\ UNCHANGED <<page, transactions, showImport, notifications, pendingLoads,
                   cur, overlap>>
    /\ UNCHANGED <<apiVars, scriptVars, shellVars>>

\* the 1500 ms timeout of handleImport
TimeoutFire(i) ==
    /\ imp[i].timeout
    /\ LET s == imp[i]
           ok == s.result.errors = 0
           shown == SetState(i, [s EXCEPT !.progress = 100,
                                          !.isLoading = FALSE,
                                          !.error = (s.error \/ ~ok)])
           done == [shown EXCEPT !.interval = FALSE, !.timeout = FALSE,
                                 !.pc = "done",
                                 !.called = s.called + (IF ok THEN 1 ELSE 0)]
       IN IF ok
          THEN /\ OnImportComplete(i, s.result.transactions)
               /\ imp' = [k \in DOMAIN imp |->
                            IF k = i
                            THEN IF page = "tw" THEN Unmount(done) ELSE done
                            ELSE IF page = "tw" /\ k = cur
                                 THEN Unmount(imp[k])
                                 ELSE imp[k]]
          ELSE /\ imp' = [imp EXCEPT ![i] = done]
               /\ UNCHANGED <<transactions, showImport, notifications,
                              pendingLoads, cur>>
    /\ UNCHANGED <<page, overlap>>
    /\ UNCHANGED <<apiVars, scriptVars, shellVars>>

----------------------------------------------------------------------------
(* Time *)

\* Date.now() advances between calls
Tick ==
    /\ now < MaxNow
    /\ now' = now + 1
    /\ UNCHANGED <<uiVars, scriptVars, shellVars, useMock, mockTransactions, mockBudgets,
                   ret, importLog>>

----------------------------------------------------------------------------
(* services/apiWithFallback: every operation is                            *)
(*   if (useMockData()) return <mock>; try { invoke } catch { <mock> }     *)
(* `fails` says that the backend call rejects; in mock mode none is made   *)

\* findIndex(t => t.id === id): the first index, 0 for -1
FindIndex(list, id) ==
    IF \E k \in DOMAIN list : list[k].id = id
    THEN CHOOSE k \in DOMAIN list :
             list[k].id = id /\ \A j \in 1..(k - 1) : list[j].id # id
    ELSE 0

\* list.splice(index, 1)
Splice(list, index) ==
    SubSeq(list, 1, index - 1) \o SubSeq(list, index + 1, Len(list))

\* { ...old, ...patch }
Merge(old, patch) ==
    [f \in DOMAIN old |-> IF f \in DOMAIN patch THEN patch[f] ELSE old[f]]

\* the Partial<Transaction> values passed to update
Patches == { [category_id |-> "cat-4"] }

\* the Partial<Transaction> values the type of update admits besides a new
\* category: another amount, and the id of another stored transaction
Partials ==
    Patches \cup { [amount |-> -100], [id |-> <<"txn", 4, 0>>] }

\* the ids of the two stored transactions
StoredIds == { <<"txn", 1, 0>>, <<"txn", 4, 0>> }

\* the ids the callers ask for: a stored one and one that is not stored
AskedIds == { <<"txn", 1, 0>>, <<"txn", 9, 0>> }

\* what a variant of the direct-invoke operations that swallowed the error
\* would hand to its caller
SwallowedOutcome(fails) == IF fails THEN "mock" ELSE "backend"

\* what an operation of apiWithFallback hands to its caller
FallbackOutcome(fails) == IF useMock \/ fails THEN "mock" ELSE "backend"

\* what an operation of services/api that calls invoke directly hands to its
\* caller: the catch block rethrows
DirectOutcome(fails) == IF fails THEN "error" ELSE "backend"

Returned(api, op, fails, outcome) ==
    ret' = [api |-> api, op |-> op, failed |-> fails, outcome |-> outcome]

\* transactionsApi.getAll
TransactionsGetAll(fails) ==
    /\ fails => ~useMock
    /\ Returned("apiWithFallback", "getAll", fails, FallbackOutcome(fails))
    /\ UNCHANGED <<uiVars, scriptVars, shellVars, useMock, mockTransactions, mockBudgets,
                   now, importLog>>

\* transactionsApi.getById
TransactionsGetById(id, fails) ==
    /\ fails => ~useMock
    /\ Returned("apiWithFallback", "getById", fails, FallbackOutcome(fails))
    /\ UNCHANGED <<uiVars, scriptVars, shellVars, useMock, mockTransactions, mockBudgets,
                   now, importLog>>

\* transactionsApi.create: the mock branch pushes onto mockTransactions
TransactionsCreate(r, fails) ==
    /\ fails => ~useMock
    /\ IF FallbackOutcome(fails) = "mock"
       THEN /\ Len(mockTransactions) < MaxStore
            /\ mockTransactions' =
                   Append(mockTransactions, Tx(<<"mock", now, 0>>, r))
       ELSE UNCHANGED mockTransactions
    /\ Returned("apiWithFallback", "create", fails, FallbackOutcome(fails))
    /\ UNCHANGED <<uiVars, scriptVars, shellVars, useMock, mockBudgets, now,
                   importLog>>

\* transactionsApi.update: the mock branch overwrites the stored entry
TransactionsUpdate(id, patch, fails) ==
    /\ fails => ~useMock
    /\ LET index == FindIndex(mockTransactions, id)
       IN IF FallbackOutcome(fails) = "mock" /\ index # 0
          THEN mockTransactions' =
                   [mockTransactions EXCEPT ![index] = Merge(@, patch)]
          ELSE UNCHANGED mockTransactions
    /\ Returned("apiWithFallback", "update", fails, FallbackOutcome(fails))
    /\ UNCHANGED <<uiVars, scriptVars, shellVars, useMock, mockBudgets, now,
                   importLog>>

\* transactionsApi.delete: the mock branch splices the stored entry out
TransactionsDelete(id, fails) ==
    /\ fails => ~useMock
    /\ LET index == FindIndex(mockTransactions, id)
       IN IF FallbackOutcome(fails) = "mock" /\ index # 0
          THEN mockTransactions' = Splice(mockTransactions, index)
          ELSE UNCHANGED mockTransactions
    /\ Returned("apiWithFallback", "delete", fails, FallbackOutcome(fails))
    /\ UNCHANGED <<uiVars, scriptVars, shellVars, useMock, mockBudgets, now,
                   importLog>>

\* filesApi.readFile: the mock branch, taken only for a 'mock:' path, and the
\* catch block return a fixed CSV text; any other path is read through the
\* backend, which without Tauri rejects
FilesReadFile(mockPath, fails) ==
    /\ useMock => (fails <=> ~mockPath)
    /\ Returned("apiWithFallback", "readFile", fails,
                IF (useMock /\ mockPath) \/ fails THEN "mock" ELSE "backend")
    /\ UNCHANGED <<uiVars, scriptVars, shellVars, useMock, mockTransactions, mockBudgets,
                   now, importLog>>

----------------------------------------------------------------------------
(* appApi.importCsv of services/apiWithFallback *)

\* the files a user picks in the dialog; "none" is a dismissed dialog
CsvFiles == {"a.csv", "empty.csv"}

\* rows of a file that parse, and rows that are rejected
ValidRows(f) == IF f = "a.csv" THEN 2 ELSE 0
InvalidRows(f) == 1

\* the literal the mock branch and the catch block return
MockImportResult ==
    [success |-> TRUE, imported_count |-> 15, errors |-> 0,
     duplicate_count |-> 2, total_processed |-> 17]

\* the import_csv command of the Tauri backend, which is no part of the
\* sources: the contract of the specification (a file imported before is all
\* duplicates; success unless no row parses)
BackendImportCsv(f) ==
    LET seen == \E k \in DOMAIN importLog :
                    importLog[k].file = f /\ importLog[k].source = "backend"
    IN [success |-> ValidRows(f) > 0,
        imported_count |-> IF seen THEN 0 ELSE ValidRows(f),
        errors |-> InvalidRows(f),
        duplicate_count |-> IF seen THEN ValidRows(f) ELSE 0,
        total_processed |-> ValidRows(f) + InvalidRows(f)]

\* appApi.importCsv: `selected` is what the dialog resolves to. A dismissed
\* dialog throws 'Geen bestand geselecteerd' into the catch block. The log
\* keeps, per call, the file, where the result came from and the rows that the
\* call had parsed.
AppImportCsv(selected, fails) ==
    /\ Len(importLog) < MaxCalls
    /\ fails => ~useMock /\ selected # "none"
    /\ LET thrown == ~useMock /\ (selected = "none" \/ fails)
           mock == useMock \/ thrown
           result == IF mock THEN MockImportResult
                     ELSE BackendImportCsv(selected)
       IN /\ importLog' =
                 Append(importLog,
                        [file |-> IF useMock THEN "none" ELSE selected,
                         source |-> IF mock THEN "mock" ELSE "backend",
                         parsed |-> IF mock THEN 0 ELSE ValidRows(selected),
                         result |-> result])
          /\ Returned("apiWithFallback", "importCsv", thrown,
                      IF mock THEN "mock" ELSE "backend")
    /\ UNCHANGED <<uiVars, scriptVars, shellVars, useMock, mockTransactions, mockBudgets,
                   now>>

----------------------------------------------------------------------------
(* services/api *)

\* transactionsApi.getAll through safeInvoke: getMockData(command) when Tauri
\* is not available and when invoke rejects
ApiTransactionsGetAll(fails) ==
    /\ fails => ~useMock
    /\ Returned("api", "getAll", fails, FallbackOutcome(fails))
    /\ UNCHANGED <<uiVars, scriptVars, shellVars, useMock, mockTransactions, mockBudgets,
                   now, importLog>>

\* the operations that call invoke directly
DirectOps ==
    {"getById", "create", "update", "delete", "importCsv", "readFile"}

\* transactionsApi.getById/create/update/delete, csvApi.importFromFile and
\* filesApi.readFile: try { invoke } catch { throw new Error(...) }. Without
\* Tauri the invoke rejects.
ApiInvoke(op, fails) ==
    /\ useMock => fails
    /\ Returned("api", op, fails, DirectOutcome(fails))
    /\ UNCHANGED <<uiVars, scriptVars, shellVars, useMock, mockTransactions, mockBudgets,
                   now, importLog>>

----------------------------------------------------------------------------
(* Budgets *)

\* the budgets callers pass to budgetsApi.create of apiWithFallback, whose
\* parameter type keeps spent and remaining
BudgetInputs ==
    { [category_id |-> c, amount |-> a, spent |-> s, remaining |-> m,
       notification_threshold |-> t, period |-> "monthly", start_date |-> 0,
       end_date |-> <<>>, is_active |-> TRUE] :
         c \in {"cat-1", "cat-4"}, a \in {0, 10000, 20000},
         s \in {0, 3000, 17000}, m \in {3000, 5000, 20000}, t \in {80, 90} }

\* the stored budget as the source builds it: { ...budget, id: ... }
NewBudget(budget, id) ==
    WithPeriod(Budget(id, budget.category_id, budget.amount, budget.spent,
                      budget.remaining, budget.notification_threshold),
               budget.period, budget.start_date, budget.end_date,
               budget.is_active)

\* budgetsApi.create of apiWithFallback: the mock branch pushes the caller's
\* budget, with its spent and remaining, onto mockBudgets
BudgetsCreate(budget, fails) ==
    /\ fails => ~useMock
    /\ IF FallbackOutcome(fails) = "mock"
       THEN /\ Len(mockBudgets) < MaxBudgets
            /\ mockBudgets' =
                   Append(mockBudgets, NewBudget(budget, <<"bud-mock", now, 0>>))
       ELSE UNCHANGED mockBudgets
    /\ Returned("apiWithFallback", "budgets.create", fails,
                FallbackOutcome(fails))
    /\ UNCHANGED <<uiVars, scriptVars, shellVars, useMock, mockTransactions, now,
                   importLog>>

\* budgetsApi.getAll of apiWithFallback
BudgetsGetAll(fails) ==
    /\ fails => ~useMock
    /\ Returned("apiWithFallback", "budgets.getAll", fails,
                FallbackOutcome(fails))
    /\ UNCHANGED <<uiVars, scriptVars, shellVars, useMock, mockTransactions, mockBudgets,
                   now, importLog>>

\* the values of the create form of the Budgets page: name and amount
FormInputs ==
    { [name |-> n, amount |-> a] :
         n \in {"", "Boodschappen"}, a \in {-5000, 0, 10000} }

\* handleCreateBudget of the Budgets page: an empty name or an amount <= 0
\* sets the error 'Budget naam en bedrag zijn verplicht' and returns;
\* otherwise budgetsApi.create of services/api invokes add_budget, and a
\* rejected call is thrown to the handler's catch block
HandleCreateBudget(formData, fails) ==
    /\ IF formData.name = "" \/ formData.amount <= 0
       THEN /\ ~fails
            /\ Returned("Budgets", "handleCreateBudget", FALSE, "validation")
       ELSE /\ useMock => fails
            /\ Returned("api", "budgets.create", fails, DirectOutcome(fails))
    /\ UNCHANGED <<uiVars, scriptVars, shellVars, useMock, mockTransactions, mockBudgets,
                   now, importLog>>

\* getProgressPercentage(budget) >= p for a whole percent 0 < p <= 100: the
\* percentage is 0 when amount <= 0, else min(spent / amount * 100, 100)
ProgressAtLeast(budget, p) ==
    budget.amount > 0 /\ budget.spent * 100 >= p * budget.amount

\* getBudgetStatus(budget).text (components/Budgets.tsx)
GetBudgetStatus(budget) ==
    IF ProgressAtLeast(budget, 100) THEN "OverBudget"
    ELSE IF ProgressAtLeast(budget, 80) THEN "Waarschuwing"
    ELSE IF ProgressAtLeast(budget, 50) THEN "Op Goed Weg"
    ELSE "Goed"

----------------------------------------------------------------------------
(* The budget ledger of the backend: period resolution, spent per period,  *)
(* ended budgets and safe-to-spend. The Tauri commands behind get_budgets  *)
(* are no part of the sources; these definitions follow the design of the  *)
(* budget ledger. Dates are days counted from 2024-01-01.                  *)

\* new Date(): the day of a clock reading; readings are sixteen days apart
Today == 16 * now

HasEnd(budget) == budget.end_date # <<>>
EndDate(budget) == budget.end_date[1]

\* the days of calendar month m, month 0 being January 2024
DaysInMonth(m) ==
    CASE m % 12 = 1 -> (IF m = 1 THEN 29 ELSE 28)
      [] m % 12 \in {3, 5, 8, 10} -> 30
      [] OTHER -> 31

\* the first day of calendar month m
RECURSIVE MonthStart(_)
MonthStart(m) == IF m = 0 THEN 0 ELSE MonthStart(m - 1) + DaysInMonth(m - 1)

\* the calendar month that holds day d
MonthOf(d) == CHOOSE m \in 0..d : MonthStart(m) <= d /\ d < MonthStart(m + 1)

\* calendar months per period; weekly periods are counted in days
PeriodMonths(period) ==
    CASE period = "monthly" -> 1
      [] period = "quarterly" -> 3
      [] OTHER -> 12

\* start_date + k*P: seven days per week, calendar months otherwise (a day
\* the target month lacks is taken as that month's last day)
PeriodStart(budget, k) ==
    IF budget.period = "weekly" THEN budget.start_date + 7 * k
    ELSE LET from == MonthOf(budget.start_date)
             day == budget.start_date - MonthStart(from)
             to == from + k * PeriodMonths(budget.period)
         IN MonthStart(to)
            + (IF day < DaysInMonth(to) THEN day ELSE DaysInMonth(to) - 1)

\* a variant of InPeriod whose interval is closed at both ends
InPeriodClosed(budget, k, d) ==
    PeriodStart(budget, k) <= d /\ d <= PeriodStart(budget, k + 1)

\* day d lies in period instance k: [start_date + k*P, start_date + (k+1)*P)
InPeriod(budget, k, d) ==
    PeriodStart(budget, k) <= d /\ d < PeriodStart(budget, k + 1)

\* the indexes of the period instances that can start by day d: no period is
\* shorter than a week
PeriodsUpTo(d) == 0..(d \div 7)

\* the current period instance: the largest k whose instance starts at or
\* before today
CurrentPeriod(budget, today) ==
    CHOOSE k \in PeriodsUpTo(today) :
        /\ PeriodStart(budget, k) <= today
        /\ \A j \in PeriodsUpTo(today) :
               PeriodStart(budget, j) <= today => j <= k

\* the current period instance starts at or after the end date
Ended(budget, today) ==
    /\ HasEnd(budget)
    /\ PeriodStart(budget, CurrentPeriod(budget, today)) >= EndDate(budget)

\* the ledger's transactions: date, amount, direction and category
LedgerTx(date, amount, transaction_type, category_id) ==
    [date |-> date, amount |-> amount, transaction_type |-> transaction_type,
     category_id |-> category_id]

LedgerTxs ==
    { LedgerTx(14, -15000, "debit", "cat-1"),
      LedgerTx(16, -8000, "debit", "cat-1"),
      LedgerTx(31, 285000, "credit", "none") }

\* the transaction lists of the ledgers: up to two transactions
LedgerTxLists == SeqsUpTo(LedgerTxs, 2)

LedgerBudget(category_id, amount, period, start_date, end_date) ==
    [category_id |-> category_id, amount |-> amount, period |-> period,
     start_date |-> start_date, end_date |-> end_date]

\* the ledger's budgets: the overall budget and a budget for cat-1
LedgerBudgets ==
    LET overall == { LedgerBudget("none", a, "monthly", 0, <<>>) :
                       a \in {10000, 30000} }
        first == { LedgerBudget("cat-1", 20000, p, 0, e) :
                     p \in {"weekly", "monthly"}, e \in {<<>>, <<30>>} }
    IN { <<o, f>> : o \in overall, f \in first }

\* spent of period instance k: the sum of abs(amount) over the debit
\* transactions dated in the instance, of the budget's category or, for a
\* budget without category, of any category
SpentInPeriod(budget, k, txs) ==
    SumSeq([i \in DOMAIN txs |->
              IF /\ txs[i].transaction_type = "debit"
                 /\ \/ budget.category_id = "none"
                    \/ txs[i].category_id = budget.category_id
                 /\ InPeriod(budget, k, txs[i].date)
              THEN Abs(txs[i].amount) ELSE 0])

\* the status of one budget for the current period instance
BudgetStatus(budget, txs, today) ==
    LET k == CurrentPeriod(budget, today)
        spent == IF Ended(budget, today) THEN 0
                 ELSE SpentInPeriod(budget, k, txs)
    IN [category_id |-> budget.category_id,
        amount |-> budget.amount,
        period_index |-> k,
        is_active |-> ~Ended(budget, today),
        spent |-> spent,
        remaining |-> IF Ended(budget, today) THEN 0
                      ELSE budget.amount - spent]

\* a variant of FloorAtZero that does not floor
Unfloored(x) == x

FloorAtZero(x) == IF x < 0 THEN 0 ELSE x

\* the spent of the active category budgets together
ActiveSpent(status) ==
    SumSeq([i \in DOMAIN status |->
              IF status[i].category_id # "none" /\ status[i].is_active
              THEN status[i].spent ELSE 0])

\* safe-to-spend: the overall budget's amount less the spent of the active
\* category budgets, floored at zero
SafeToSpend(status) ==
    LET overall == CHOOSE i \in DOMAIN status : status[i].category_id = "none"
    IN FloorAtZero(status[overall].amount - ActiveSpent(status))

\* get_budget_status of the backend over a ledger of budgets and transactions
BackendGetBudgetStatus(budgets, txs) ==
    /\ ~useMock
    /\ LET status == [i \in DOMAIN budgets |->
                        BudgetStatus(budgets[i], txs, Today)]
       IN ret' = [api |-> "backend", op |-> "get_budget_status",
                  failed |-> FALSE, outcome |-> "backend", today |-> Today,
                  budgets |-> budgets, transactions |-> txs,
                  status |-> status, safe_to_spend |-> SafeToSpend(status)]
    /\ UNCHANGED <<uiVars, scriptVars, shellVars, useMock, mockTransactions, mockBudgets,
                   now, importLog>>

----------------------------------------------------------------------------
(* sample-data/import-sample-data.js *)

\* a data line of transactions-sample.csv: blank, or the comma-separated
\* values read by parseCsvToTransactions (fp stands for date and description;
\* numeric says that the amount column starts with a number)
CsvLine(blank, r, typeText, categoryName) ==
    [blank |-> blank, fp |-> r, amount |-> RowAmount(r), numeric |-> TRUE,
     type |-> typeText, category |-> categoryName]

\* a row whose amount column is empty
EmptyAmountLine ==
    [CsvLine(FALSE, 1, "debit", "Supermarkten") EXCEPT !.fp = 4,
                                                       !.numeric = FALSE]

\* a row in the layout of the Dutch bank exports: the amount without a sign
\* and the direction in the type column
AfLine ==
    [CsvLine(FALSE, 2, "Af", "Transport") EXCEPT !.fp = 5, !.amount = 12550]

ScriptLines ==
    { CsvLine(FALSE, 1, "debit", "Supermarkten"),
      CsvLine(FALSE, 2, "Debit", "Transport"),
      CsvLine(FALSE, 3, "Credit", "Salaris"),
      CsvLine(TRUE, 0, "", ""),
      EmptyAmountLine,
      AfLine }

\* String.prototype.toLowerCase on the type texts of the sample
ToLowerCase(text) ==
    CASE text = "Debit" -> "debit"
      [] text = "Credit" -> "credit"
      [] text = "Af" -> "af"
      [] OTHER -> text

\* mapCategory: categoryMap[categoryName] || null ("none" stands for null)
MapCategory(categoryName) ==
    CASE categoryName = "Supermarkten" -> "cat_supermarkets"
      [] categoryName = "Boodschappen" -> "cat_supermarkets"
      [] categoryName = "Restaurants" -> "cat_restaurants"
      [] categoryName = "Transport" -> "cat_transport"
      [] categoryName = "Wonen" -> "cat_housing"
      [] categoryName = "Werk" -> "cat_work"
      [] OTHER -> "none"

\* parseFloat(values[2]): the number, or NaN (nan, with amount 0 as a filler)
ParseFloat(line) ==
    [amount |-> IF line.numeric THEN line.amount ELSE 0,
     nan |-> ~line.numeric]

\* parseCsvToTransactions: line i of the file (line 0 is the header) becomes
\* the transaction txn_<Date.now()>_<i>; blank lines are skipped
RECURSIVE ParseLines(_, _, _)
ParseLines(lines, t, i) ==
    IF i > Len(lines) THEN <<>>
    ELSE LET line == lines[i]
             rest == ParseLines(lines, t, i + 1)
         IN IF line.blank THEN rest
            ELSE << [id |-> <<"txn_", t, i>>,
                     fp |-> line.fp,
                     amount |-> ParseFloat(line).amount,
                     nan |-> ParseFloat(line).nan,
                     transaction_type |->
                         IF ToLowerCase(line.type) = "credit"
                         THEN "credit" ELSE "debit",
                     category_id |-> MapCategory(line.category)] >> \o rest

ParseCsvToTransactions(lines, t) == ParseLines(lines, t, 1)

\* the amount of a transaction is NaN: only parseFloat produces one
IsNaN(tx) == "nan" \in DOMAIN tx /\ tx.nan

\* the forEach of prepareData over the first n transactions, for category c:
\* spendingByCategory[c] = (spendingByCategory[c] || 0) + Math.abs(tx.amount),
\* where NaN || 0 is 0 and a sum with NaN is NaN
RECURSIVE SpendingFold(_, _, _)
SpendingFold(list, c, n) ==
    IF n = 0 THEN [amount |-> 0, nan |-> FALSE]
    ELSE LET acc == SpendingFold(list, c, n - 1)
             tx == list[n]
         IN IF tx.transaction_type = "debit" /\ tx.category_id = c
               /\ c # "none"
            THEN IF IsNaN(tx) THEN [amount |-> 0, nan |-> TRUE]
                 ELSE [amount |-> (IF acc.nan THEN 0 ELSE acc.amount)
                                      + Abs(tx.amount),
                       nan |-> FALSE]
            ELSE acc

\* spendingByCategory[c] || 0 of prepareData
SpendingByCategory(list, c) ==
    LET total == SpendingFold(list, c, Len(list))
    IN IF total.nan THEN 0 ELSE total.amount

\* prepareData().budgets
PrepareData(budgets, importCsv, lines, t) ==
    IF importCsv
    THEN [k \in DOMAIN budgets |->
            LET spent == SpendingByCategory(ParseCsvToTransactions(lines, t),
                                            budgets[k].category_id)
            IN [budgets[k] EXCEPT !.spent = spent,
                                  !.remaining = budgets[k].amount - spent]]
    ELSE budgets

\* one run of the script: exportData() with the flags of the command line
ExportData(importCsv, importJson) ==
    /\ flags' = [importCsv |-> importCsv, importJson |-> importJson]
    /\ outBudgets' = IF importJson
                     THEN PrepareData(seedBudgets, importCsv, csvFile, now)
                     ELSE outBudgets
    /\ outTransactions' = IF importCsv
                          THEN ParseCsvToTransactions(csvFile, now)
                          ELSE outTransactions
    /\ UNCHANGED <<uiVars, apiVars, shellVars, csvFile, seedBudgets>>

\* the sample file is edited between runs: a line is added at the end
AppendLine(line) ==
    /\ Len(csvFile) < MaxLines
    /\ csvFile' = Append(csvFile, line)
    /\ UNCHANGED <<uiVars, apiVars, shellVars, seedBudgets, outTransactions, outBudgets,
                   flags>>

\* budgets of seed-data.json: two category budgets and the overall budget,
\* which has no category
SeedBudgetsInit ==
    << Budget(<<"seed", 1, 0>>, "cat_supermarkets", 60000, 0, 60000, 80),
       Budget(<<"seed", 2, 0>>, "cat_transport", 20000, 0, 20000, 80),
       Budget(<<"seed", 3, 0>>, "none", 250000, 0, 250000, 80) >>

----------------------------------------------------------------------------
(* Rule-based categorisation: categorize_dutch of DATABASE_FIX.md.         *)
(* Texts are sequences of characters.                                      *)

UpperCase ==
    <<"A", "B", "C", "D", "E", "F", "G", "H", "I", "J", "K", "L", "M", "N", "O", "P", "Q", "R", "S", "T", "U", "V", "W", "X", "Y", "Z">>
LowerCase ==
    <<"a", "b", "c", "d", "e", "f", "g", "h", "i", "j", "k", "l", "m", "n", "o", "p", "q", "r", "s", "t", "u", "v", "w", "x", "y", "z">>

\* str.lower() of one character
LowerChar(c) ==
    IF \E k \in DOMAIN UpperCase : UpperCase[k] = c
    THEN LowerCase[CHOOSE k \in DOMAIN UpperCase : UpperCase[k] = c]
    ELSE c

\* str(text).lower()
Lower(text) == [k \in DOMAIN text |-> LowerChar(text[k])]

\* x in text: x is a substring of text
Contains(text, x) ==
    \E i \in 0..(Len(text) - Len(x)) : SubSeq(text, i + 1, i + Len(x)) = x

\* the if statements of categorize_dutch in their order: the category
\* returned, the keywords looked for in the merchant and in the description
CategoryRules ==
    << [category |-> "Boodschappen",
        merchant |-> { <<"a", "l", "b", "e", "r", "t", " ", "h", "e", "i", "j", "n">>,
          <<"j", "u", "m", "b", "o">>,
          <<"l", "i", "d", "l">>,
          <<"a", "l", "d", "i">> },
        description |-> {}],
       [category |-> "Vervoer",
        merchant |-> { <<"n", "s", " ", "g", "r", "o", "e", "p">>,
          <<"g", "v", "b">>,
          <<"r", "e", "t">> },
        description |-> { <<"o", "v", "-", "c", "h", "i", "p", "k", "a", "a", "r", "t">> }],
       [category |-> "Vaste lasten",
        merchant |-> { <<"e", "n", "e", "c", "o">>,
          <<"e", "s", "s", "e", "n", "t">>,
          <<"z", "i", "g", "g", "o">>,
          <<"k", "p", "n">> },
        description |-> {}],
       [category |-> "Inkomen",
        merchant |-> {},
        description |-> { <<"s", "a", "l", "a", "r", "i", "s">>,
          <<"l", "o", "o", "n">> }],
       [category |-> "Wonen",
        merchant |-> {},
        description |-> { <<"h", "u", "u", "r">>,
          <<"h", "y", "p", "o", "t", "h", "e", "e", "k">> }] >>

\* merchants and descriptions of bank rows
Merchants ==
    { <<"L", "i", "d", "l">>,
      <<"E", "n", "e", "c", "o", " ", "R", "e", "t", "a", "i", "l">>,
      <<"G", "V", "B">>,
      <<"K", "P", "N", " ", "R", "e", "t", "a", "i", "l">>,
      <<"J", "u", "m", "b", "o">>,
      <<"C", "a", "f", "e">>,
      <<"Z", "i", "g", "g", "o">>,
      <<"N", "S", " ", "G", "r", "o", "e", "p">> }
Descriptions ==
    { <<"S", "a", "l", "a", "r", "i", "s">>,
      <<"H", "u", "u", "r">>,
      <<"P", "i", "n", "b", "e", "t", "a", "l", "i", "n", "g">>,
      <<"L", "o", "o", "n">>,
      <<"O", "V", "-", "c", "h", "i", "p", "k", "a", "a", "r", "t">> }

\* categorize_dutch(merchant, description): the first if statement that holds
\* returns its category
CategorizeDutch(merchant, description) ==
    LET merchant_lower == Lower(merchant)
        desc_lower == Lower(description)
        holds(k) ==
            \/ \E x \in CategoryRules[k].merchant : Contains(merchant_lower, x)
            \/ \E x \in CategoryRules[k].description : Contains(desc_lower, x)
    IN IF \E k \in DOMAIN CategoryRules : holds(k)
       THEN CategoryRules[CHOOSE k \in DOMAIN CategoryRules :
                /\ holds(k)
                /\ \A j \in 1..(k - 1) : ~holds(j)].category
       ELSE "Overig"

\* one bank row is categorised
Categorize(merchant, description) ==
    /\ ret' = [api |-> "rules", op |-> "categorize_dutch", failed |-> FALSE,
               outcome |-> "category", merchant |-> merchant,
               description |-> description,
               category |-> CategorizeDutch(merchant, description)]
    /\ UNCHANGED <<uiVars, scriptVars, shellVars, useMock, mockTransactions, mockBudgets,
                   now, importLog>>

----------------------------------------------------------------------------
(* Notifications (components/Notifications.tsx) on the Tailwind             *)
(* Transactions page. In this part the clock counts units of 2500 ms and   *)
(* `notifications` holds the Notification objects themselves.              *)

MaxShown == 2         \* notifications shown together

DefaultDuration == 2  \* notification.duration || 5000

\* the Notification values passed to addNotification, without their id; the
\* optional duration is <<>> when absent and <<d>> when set
NotificationInputs ==
    [persistent : BOOLEAN, duration : { <<>>, <<0>>, <<1>> }]

\* !notification.persistent && notification.duration !== 0
AutoRemoved(n) == ~n.persistent /\ n.duration # <<0>>

\* notification.duration || 5000
Delay(n) ==
    IF n.duration = <<>> \/ n.duration = <<0>> THEN DefaultDuration
    ELSE n.duration[1]

\* the effects of the NotificationItems after the page has rendered at time
\* t: onRemove is a function made anew by each render of Transactions, so the
\* dependencies [notification, onRemove] have changed for every item; each
\* cleanup clears the old timeout and each effect sets a new one
RunEffects(list, t) ==
    { [id |-> list[k].id, due |-> t + Delay(list[k])] :
        k \in { j \in DOMAIN list : AutoRemoved(list[j]) } }

\* addNotification(notification), the id being Date.now().toString(); callers
\* read the clock at different moments
AddNotification(notification) ==
    /\ Len(notifications) < MaxShown
    /\ \A k \in DOMAIN notifications : notifications[k].id # now
    /\ notifications' =
           Append(notifications,
                  [id |-> now, persistent |-> notification.persistent,
                   duration |-> notification.duration])
    /\ timeouts' = RunEffects(notifications', now)
    /\ UNCHANGED <<page, transactions, showImport, pendingLoads, imp, cur,
                   overlap>>
    /\ UNCHANGED <<apiVars, scriptVars, boundary, categoriesPage>>

\* removeNotification(id): prev.filter(n => n.id !== id)
RemoveNotification(id) ==
    /\ notifications' = SelectSeq(notifications, LAMBDA n : n.id # id)
    /\ timeouts' = RunEffects(notifications', now)
    /\ UNCHANGED <<page, transactions, showImport, pendingLoads, imp, cur,
                   overlap>>
    /\ UNCHANGED <<apiVars, scriptVars, boundary, categoriesPage>>

\* the close button of a NotificationItem
CloseButton(id) ==
    /\ \E k \in DOMAIN notifications : notifications[k].id = id
    /\ RemoveNotification(id)

\* the timeout of a NotificationItem fires: onRemove(notification.id)
RemovalTimeout(id) ==
    /\ \E x \in timeouts : x.id = id /\ x.due <= now
    /\ RemoveNotification(id)

\* any other state update of the page (setSearchQuery, setShowFilters, ...)
\* renders it again
SetSearchQuery ==
    /\ timeouts' = RunEffects(notifications, now)
    /\ UNCHANGED <<uiVars, apiVars, scriptVars, boundary, categoriesPage>>

----------------------------------------------------------------------------
(* The totals shown by the Dashboard and by the two Transactions pages,    *)
(* with the filters of the pages in their initial state (no search text,   *)
(* type and category 'all'), so that filteredTransactions = transactions   *)

\* list.filter(t => t.transaction_type === type)
FilterByType(list, type) ==
    SelectSeq(list, LAMBDA t : t.transaction_type = type)

\* list.reduce((sum, t) => sum + t.amount, 0)
ReduceAmount(list) == SumSeq([k \in DOMAIN list |-> list[k].amount])

\* list.reduce((sum, t) => sum + Math.abs(t.amount), 0)
ReduceAbsAmount(list) == SumSeq([k \in DOMAIN list |-> Abs(list[k].amount)])

\* Dashboard.loadDashboardData: totalIncome, totalExpenses, netSavings
DashboardStats(list) ==
    LET totalIncome == ReduceAmount(FilterByType(list, "credit"))
        totalExpenses == ReduceAbsAmount(FilterByType(list, "debit"))
    IN [totalIncome |-> totalIncome, totalExpenses |-> totalExpenses,
        netSavings |-> totalIncome - totalExpenses]

\* Transactions (Material-UI): totalBalance, totalIncome, totalExpenses
TotalsMui(list) ==
    [totalBalance |-> ReduceAmount(list),
     totalIncome |-> ReduceAmount(FilterByType(list, "credit")),
     totalExpenses |-> Abs(ReduceAmount(FilterByType(list, "debit")))]

\* Transactions (Tailwind): totalIncome, totalExpenses and the net figure
\* totalIncome - totalExpenses of the third card
TotalsTw(list) ==
    LET totalIncome == ReduceAmount(FilterByType(list, "credit"))
        totalExpenses == ReduceAmount(FilterByType(list, "debit"))
    IN [totalIncome |-> totalIncome, totalExpenses |-> totalExpenses,
        net |-> totalIncome - totalExpenses]

\* the three views are rendered over what transactionsApi.getAll() returns
RenderTotals ==
    /\ ret' = [api |-> "pages", op |-> "totals", failed |-> FALSE,
               outcome |-> "rendered",
               dashboard |-> DashboardStats(GetAllTransactions),
               mui |-> TotalsMui(GetAllTransactions),
               tw |-> TotalsTw(GetAllTransactions)]
    /\ UNCHANGED <<uiVars, scriptVars, shellVars, useMock, mockTransactions,
                   mockBudgets, now, importLog>>

----------------------------------------------------------------------------
(* ErrorBoundary (components/ErrorBoundary.tsx), mounted around the whole  *)
(* application without a fallback prop                                     *)

maxRetries == 3

\* error.name of what a child may throw while rendering
Errors == {"TypeError", "ChunkLoadError"}

\* the constructor's this.state; dev is import.meta.env.DEV of the build
ErrorBoundaryMount(dev) ==
    [hasError |-> FALSE, error |-> "null", errorInfo |-> FALSE,
     retryCount |-> 0, dev |-> dev]

\* getDerivedStateFromError followed by componentDidCatch
CaughtError(state, error) ==
    [state EXCEPT !.hasError = TRUE, !.error = error, !.errorInfo = TRUE]

\* a handleRetry that counts without limit
RetryUnbounded(state) ==
    [state EXCEPT !.hasError = FALSE, !.error = "null", !.errorInfo = FALSE,
                  !.retryCount = state.retryCount + 1]

\* handleRetry
HandleRetry(state) ==
    IF state.retryCount < maxRetries
    THEN [state EXCEPT !.hasError = FALSE, !.error = "null",
                       !.errorInfo = FALSE,
                       !.retryCount = state.retryCount + 1]
    ELSE state

\* render(): what is on the screen
Render(state, fallback) ==
    IF ~state.hasError
    THEN [screen |-> "children", retry |-> FALSE, details |-> FALSE,
          maxReached |-> FALSE]
    ELSE IF fallback
    THEN [screen |-> "fallback", retry |-> FALSE, details |-> FALSE,
          maxReached |-> FALSE]
    ELSE [screen |-> "error",
          retry |-> state.retryCount < maxRetries,
          details |-> (state.dev /\ state.error # "null"),
          maxReached |-> state.retryCount >= maxRetries]

\* a child throws while the children are rendered
ChildThrows(error) ==
    /\ Render(boundary, FALSE).screen = "children"
    /\ boundary' = CaughtError(boundary, error)
    /\ UNCHANGED <<uiVars, apiVars, scriptVars, timeouts, categoriesPage>>

\* handleRetry is invoked while the error screen is shown
RetryInvoked ==
    /\ Render(boundary, FALSE).screen = "error"
    /\ boundary' = HandleRetry(boundary)
    /\ UNCHANGED <<uiVars, apiVars, scriptVars, timeouts, categoriesPage>>

\* handleReload and handleGoHome: the page is loaded anew and the component
\* is constructed again
PageLoad ==
    /\ Render(boundary, FALSE).screen = "error"
    /\ boundary' = ErrorBoundaryMount(boundary.dev)
    /\ UNCHANGED <<uiVars, apiVars, scriptVars, timeouts, categoriesPage>>

----------------------------------------------------------------------------
(* Categories page (components/Categories.tsx), which calls services/api   *)

Category(id, is_system) == [id |-> id, is_system |-> is_system]

\* what get_categories returned: two system categories of the application
\* and two categories the user has added
CategoriesInit ==
    << Category("cat-1", TRUE), Category("cat-2", TRUE),
       Category("usr-1", FALSE), Category("usr-2", FALSE) >>

NoHandler == [handler |-> "none", id |-> "none"]

\* the page once loadCategories has returned
CategoriesLoaded ==
    [categories |-> CategoriesInit, editingCategory |-> <<>>,
     isEditDialogOpen |-> FALSE, error |-> "null", success |-> "null",
     deleting |-> {}, called |-> {}, last |-> NoHandler]

Invoked(handler, id) == [handler |-> handler, id |-> id]

\* a handleDeleteCategory without its first check
DeleteUnchecked(category, confirmed) ==
    /\ category \in Range(categoriesPage.categories)
    /\ categoriesPage' =
           IF confirmed
           THEN [categoriesPage EXCEPT
                   !.deleting = @ \cup { [id |-> category.id,
                                          categories |->
                                              categoriesPage.categories] },
                   !.called = @ \cup { <<"delete_category", category.id>> },
                   !.last = Invoked("handleDeleteCategory", category.id)]
           ELSE [categoriesPage EXCEPT
                   !.last = Invoked("handleDeleteCategory", category.id)]
    /\ UNCHANGED <<uiVars, apiVars, scriptVars, timeouts, boundary>>

\* handleDeleteCategory(category) up to its await; confirmed is the answer to
\* window.confirm
HandleDeleteCategory(category, confirmed) ==
    /\ category \in Range(categoriesPage.categories)
    /\ categoriesPage' =
           IF category.is_system
           THEN [categoriesPage EXCEPT
                   !.error = "Systeemcategorieën kunnen niet worden verwijderd",
                   !.last = Invoked("handleDeleteCategory", category.id)]
           ELSE IF confirmed
           THEN [categoriesPage EXCEPT
                   !.deleting = @ \cup { [id |-> category.id,
                                          categories |->
                                              categoriesPage.categories] },
                   !.called = @ \cup { <<"delete_category", category.id>> },
                   !.last = Invoked("handleDeleteCategory", category.id)]
           ELSE [categoriesPage EXCEPT
                   !.last = Invoked("handleDeleteCategory", category.id)]
    /\ UNCHANGED <<uiVars, apiVars, scriptVars, timeouts, boundary>>

\* handleDeleteCategory after categoriesApi.delete has settled: the list is
\* set from the categories of the render in which the handler was invoked
DeleteSettled(d, fails) ==
    /\ d \in categoriesPage.deleting
    /\ categoriesPage' =
           IF fails
           THEN [categoriesPage EXCEPT
                   !.deleting = @ \ {d},
                   !.error = "Categorie verwijderen mislukt",
                   !.last = NoHandler]
           ELSE [categoriesPage EXCEPT
                   !.deleting = @ \ {d},
                   !.categories =
                       SelectSeq(d.categories, LAMBDA cat : cat.id # d.id),
                   !.success = "Categorie succesvol verwijderd",
                   !.last = NoHandler]
    /\ UNCHANGED <<uiVars, apiVars, scriptVars, timeouts, boundary>>

\* startEditCategory(category)
StartEditCategory(category) ==
    /\ category \in Range(categoriesPage.categories)
    /\ categoriesPage' =
           IF category.is_system
           THEN [categoriesPage EXCEPT
                   !.error = "Systeemcategorieën kunnen niet worden bewerkt",
                   !.last = Invoked("startEditCategory", category.id)]
           ELSE [categoriesPage EXCEPT
                   !.editingCategory = <<category>>,
                   !.isEditDialogOpen = TRUE,
                   !.last = Invoked("startEditCategory", category.id)]
    /\ UNCHANGED <<uiVars, apiVars, scriptVars, timeouts, boundary>>

\* handleUpdateCategory, the save button of the edit dialog; nameEmpty says
\* that formData.name.trim() is empty. update_category returns the category
\* under its id.
HandleUpdateCategory(nameEmpty, fails) ==
    /\ categoriesPage.isEditDialogOpen
    /\ categoriesPage' =
           IF categoriesPage.editingCategory = <<>> \/ nameEmpty
           THEN [categoriesPage EXCEPT
                   !.error = "Categorie naam is verplicht",
                   !.last = NoHandler]
           ELSE IF fails
           THEN [categoriesPage EXCEPT
                   !.called = @ \cup { <<"update_category",
                                         categoriesPage.editingCategory[1].id>> },
                   !.error = "Categorie bijwerken mislukt",
                   !.last = NoHandler]
           ELSE [categoriesPage EXCEPT
                   !.called = @ \cup { <<"update_category",
                                         categoriesPage.editingCategory[1].id>> },
                   !.isEditDialogOpen = FALSE,
                   !.editingCategory = <<>>,
                   !.success = "Categorie succesvol bijgewerkt",
                   !.last = NoHandler]
    /\ UNCHANGED <<uiVars, apiVars, scriptVars, timeouts, boundary>>

\* closeDialogs
CloseDialogs ==
    /\ categoriesPage.isEditDialogOpen
    /\ categoriesPage' = [categoriesPage EXCEPT !.isEditDialogOpen = FALSE,
                                                !.editingCategory = <<>>,
                                                !.error = "null",
                                                !.last = NoHandler]
    /\ UNCHANGED <<uiVars, apiVars, scriptVars, timeouts, boundary>>

\* a snackbar closes: setSuccess(null) or setError(null)
SnackbarClose(message) ==
    /\ categoriesPage' =
           IF message = "success"
           THEN [categoriesPage EXCEPT !.success = "null", !.last = NoHandler]
           ELSE [categoriesPage EXCEPT !.error = "null", !.last = NoHandler]
    /\ UNCHANGED <<uiVars, apiVars, scriptVars, timeouts, boundary>>

----------------------------------------------------------------------------
(* Initial states *)

ProcessOutcomes == {"invalid", "preview", "previewErrors", "throw"}

InitUi ==
    /\ page \in {"mui", "tw"}
    /\ transactions = <<>>
    /\ showImport = FALSE
    /\ notifications = <<>>
    /\ pendingLoads = 1
    /\ imp = <<>>
    /\ cur = 0
    /\ overlap = FALSE

InitApi ==
    /\ useMock \in BOOLEAN
    /\ mockTransactions = MockTransactionsInit
    /\ mockBudgets = MockBudgetsInit
    /\ now = 0
    /\ ret = [api |-> "none", op |-> "none", failed |-> FALSE,
              outcome |-> "none"]
    /\ importLog = <<>>

InitScript ==
    /\ csvFile = <<>>
    /\ seedBudgets = SeedBudgetsInit
    /\ outTransactions = <<>>
    /\ outBudgets = <<>>
    /\ flags = [importCsv |-> FALSE, importJson |-> FALSE]

\* the application shell: nothing is shown yet, a development build
InitShell ==
    /\ timeouts = {}
    /\ boundary = ErrorBoundaryMount(TRUE)
    /\ categoriesPage = CategoriesLoaded

Init == InitUi /\ InitApi /\ InitScript /\ InitShell

----------------------------------------------------------------------------
(* The import flow of the frontend, with the Tauri backend present *)

NextImport ==
    \/ LoadDataReturn
    \/ OpenImport
    \/ Cancel
    \/ ProcessFile
    \/ \E i \in DOMAIN imp, o \in ProcessOutcomes : ProcessFileDone(i, o)
    \/ ChooseAnother
    \/ HandleImport
    \/ \E i \in DOMAIN imp, r \in CsvImportResult : ParseReturn(i, r)
    \/ \E i \in DOMAIN imp : ParseThrow(i)
    \/ \E i \in DOMAIN imp : IntervalTick(i)
    \/ \E i \in DOMAIN imp : TimeoutFire(i)

InitImport == Init /\ useMock = FALSE

SpecImport == InitImport /\ [][NextImport]_vars

----------------------------------------------------------------------------
(* Calls of the two service layers, within one reading of the clock *)

NextApi ==
    \/ \E fails \in BOOLEAN : TransactionsGetAll(fails)
    \/ \E id \in AskedIds, fails \in BOOLEAN : TransactionsGetById(id, fails)
    \/ \E r \in Rows, fails \in BOOLEAN : TransactionsCreate(r, fails)
    \/ \E id \in AskedIds, patch \in Patches, fails \in BOOLEAN :
           TransactionsUpdate(id, patch, fails)
    \/ \E id \in AskedIds, fails \in BOOLEAN : TransactionsDelete(id, fails)
    \/ \E mockPath \in BOOLEAN, fails \in BOOLEAN :
           FilesReadFile(mockPath, fails)
    \/ \E selected \in CsvFiles \cup {"none"}, fails \in BOOLEAN :
           AppImportCsv(selected, fails)
    \/ \E fails \in BOOLEAN : ApiTransactionsGetAll(fails)
    \/ \E op \in DirectOps, fails \in BOOLEAN : ApiInvoke(op, fails)

InitCalls == Init /\ page = "mui"

SpecApi == InitCalls /\ [][NextApi]_vars

----------------------------------------------------------------------------
(* The budget store of apiWithFallback *)

NextBudget ==
    \/ Tick
    \/ \E budget \in BudgetInputs, fails \in BOOLEAN :
           BudgetsCreate(budget, fails)
    \/ \E fails \in BOOLEAN : BudgetsGetAll(fails)
    \/ \E formData \in FormInputs, fails \in BOOLEAN :
           HandleCreateBudget(formData, fails)

SpecBudget == InitCalls /\ [][NextBudget]_vars

----------------------------------------------------------------------------
(* The transaction store of apiWithFallback over time *)

NextLedger ==
    \/ Tick
    \/ \E r \in Rows, fails \in BOOLEAN : TransactionsCreate(r, fails)
    \/ \E id \in StoredIds, patch \in Partials, fails \in BOOLEAN :
           TransactionsUpdate(id, patch, fails)
    \/ \E id \in StoredIds, fails \in BOOLEAN : TransactionsDelete(id, fails)

SpecLedger == InitCalls /\ [][NextLedger]_vars

----------------------------------------------------------------------------
(* Budget status reports of the backend over time *)

NextStatus ==
    \/ Tick
    \/ \E budgets \in LedgerBudgets, txs \in LedgerTxLists :
           BackendGetBudgetStatus(budgets, txs)

InitStatus == InitCalls /\ useMock = FALSE

SpecStatus == InitStatus /\ [][NextStatus]_vars

----------------------------------------------------------------------------
(* Runs of the sample-data script *)

NextScript ==
    \/ Tick
    \/ \E line \in ScriptLines : AppendLine(line)
    \/ \E importCsv \in BOOLEAN, importJson \in BOOLEAN :
           ExportData(importCsv, importJson)

InitRun == Init /\ page = "mui" /\ useMock = TRUE

SpecScript == InitRun /\ [][NextScript]_vars

----------------------------------------------------------------------------
(* Categorisation of bank rows over time *)

NextRules ==
    \/ Tick
    \/ \E merchant \in Merchants, description \in Descriptions :
           Categorize(merchant, description)

SpecRules == InitCalls /\ [][NextRules]_vars

----------------------------------------------------------------------------
(* The notifications of the Tailwind Transactions page over time *)

NextNotify ==
    \/ Tick
    \/ \E notification \in NotificationInputs : AddNotification(notification)
    \/ \E id \in 0..MaxNow : CloseButton(id)
    \/ \E id \in 0..MaxNow : RemovalTimeout(id)
    \/ SetSearchQuery

InitNotify == Init /\ page = "tw" /\ useMock = TRUE

SpecNotify == InitNotify /\ [][NextNotify]_vars

----------------------------------------------------------------------------
(* The totals of the pages as the transaction store changes *)

NextTotals ==
    \/ Tick
    \/ \E r \in Rows, fails \in BOOLEAN : TransactionsCreate(r, fails)
    \/ \E id \in StoredIds, fails \in BOOLEAN : TransactionsDelete(id, fails)
    \/ RenderTotals

SpecTotals == InitCalls /\ [][NextTotals]_vars

----------------------------------------------------------------------------
(* The error boundary over time, in a development or a production build *)

NextBoundary ==
    \/ Tick
    \/ \E error \in Errors : ChildThrows(error)
    \/ RetryInvoked
    \/ PageLoad

InitBoundary ==
    /\ InitUi /\ InitApi /\ InitScript
    /\ page = "mui"
    /\ timeouts = {}
    /\ \E dev \in BOOLEAN : boundary = ErrorBoundaryMount(dev)
    /\ categoriesPage = CategoriesLoaded

SpecBoundary == InitBoundary /\ [][NextBoundary]_vars

----------------------------------------------------------------------------
(* The Categories page: its handlers invoked for any listed category *)

NextCategories ==
    \/ \E category \in Range(CategoriesInit), confirmed \in BOOLEAN :
           HandleDeleteCategory(category, confirmed)
    \/ \E d \in categoriesPage.deleting, fails \in BOOLEAN :
           DeleteSettled(d, fails)
    \/ \E category \in Range(CategoriesInit) : StartEditCategory(category)
    \/ \E nameEmpty \in BOOLEAN, fails \in BOOLEAN :
           HandleUpdateCategory(nameEmpty, fails)
    \/ CloseDialogs
    \/ \E message \in {"success", "error"} : SnackbarClose(message)

SpecCategories == InitCalls /\ [][NextCategories]_vars

----------------------------------------------------------------------------
(* Properties *)

Max(a, b) == IF a >= b THEN a ELSE b

Batch(i) == imp[i].result.transactions

\* C1: the exported ledger never holds two transactions with the same id or
\* the same fingerprint (a repeated row is left out, not written twice).
NoDuplicateTransactions ==
    \A k, l \in DOMAIN outTransactions :
        k # l => /\ outTransactions[k].id # outTransactions[l].id
                 /\ outTransactions[k].fp # outTransactions[l].fp

\* C2: when the first import of a file succeeded with imported_count = N, the
\* second import of that file reports imported_count = 0 and
\* duplicate_count = N.
SecondImportAllDuplicates ==
    \A k, l \in DOMAIN importLog :
        ( /\ k < l
          /\ importLog[k].file # "none"
          /\ importLog[l].file = importLog[k].file
          /\ \A j \in 1..(l - 1) : j # k => importLog[j].file # importLog[k].file
          /\ importLog[k].result.success )
        => /\ importLog[l].result.imported_count = 0
           /\ importLog[l].result.duplicate_count =
                  importLog[k].result.imported_count

\* C3: every stored budget has spent + remaining = amount and spent >= 0.
BudgetInvariant ==
    \A k \in DOMAIN mockBudgets :
        /\ mockBudgets[k].spent + mockBudgets[k].remaining = mockBudgets[k].amount
        /\ mockBudgets[k].spent >= 0

SuccessIffRowsParsed ==
    \A k \in DOMAIN importLog :
        (importLog[k].result.success = FALSE) <=> (importLog[k].parsed = 0)

\* C10: a budget is shown in the warning state (Waarschuwing, or past it in
\* OverBudget) exactly when spent / amount >= its own notification_threshold.
WarningIffOwnThreshold ==
    \A k \in DOMAIN mockBudgets :
        LET b == mockBudgets[k]
        IN b.amount > 0 =>
              ( GetBudgetStatus(b) \in {"Waarschuwing", "OverBudget"}
                <=> b.spent * 100 >= b.notification_threshold * b.amount )

\* C11: over runs of the script on a file that only grows, no budget's spent
\* decreases: a run that computes the budgets from the file never exports a
\* spent below the figure exported before.
SpentNeverDecreases ==
    [][ ( /\ outBudgets # <<>>
          /\ outBudgets' # outBudgets
          /\ flags'.importCsv /\ flags'.importJson )
        => \A k \in DOMAIN outBudgets :
               outBudgets'[k].spent >= outBudgets[k].spent ]_vars

\* C12: after a run that exports both files, a budget's spent is the sum of
\* abs(amount) over the debit transactions of its category, or over all debit
\* transactions when the budget has no category; credit transactions never
\* count. (Every transaction of the sample is dated inside the period.)
SpentIsSumOfDebits ==
    ( /\ flags.importCsv /\ flags.importJson
      /\ \A k \in DOMAIN outTransactions : ~IsNaN(outTransactions[k]) )
    => \A b \in DOMAIN outBudgets :
           outBudgets[b].spent =
               SumSeq([k \in DOMAIN outTransactions |->
                         LET tx == outTransactions[k]
                         IN IF /\ tx.transaction_type = "debit"
                               /\ \/ outBudgets[b].category_id = "none"
                                  \/ tx.category_id = outBudgets[b].category_id
                            THEN Abs(tx.amount) ELSE 0])

\* C16: every parsed transaction is a debit exactly when its amount is
\* negative.
DebitIffNegative ==
    \A k \in DOMAIN outTransactions :
        LET tx == outTransactions[k]
        IN (tx.transaction_type = "debit") <=> (~IsNaN(tx) /\ tx.amount < 0)

\* C20: every parsed transaction has a category.
CategoryAlwaysSet ==
    \A k \in DOMAIN outTransactions : outTransactions[k].category_id # "none"

\* C17: a step that neither adds nor removes a transaction leaves the id, the
\* amount and the date (held in the fingerprint) of every stored transaction
\* as they were; only the category may change.
StoredFieldsImmutable ==
    [][ Len(mockTransactions') = Len(mockTransactions)
        => \A k \in DOMAIN mockTransactions :
               /\ mockTransactions'[k].id = mockTransactions[k].id
               /\ mockTransactions'[k].amount = mockTransactions[k].amount
               /\ mockTransactions'[k].fp = mockTransactions[k].fp ]_vars

\* C18: the removal of a debit transaction lowers spent, and raises remaining,
\* of every budget of its category by the transaction's amount: the figures
\* recomputed from the transactions that are left.
BudgetsFollowRemoval ==
    [][ \A index \in DOMAIN mockTransactions :
            ( /\ mockTransactions' = Splice(mockTransactions, index)
              /\ mockTransactions[index].transaction_type = "debit" )
            => \A b \in DOMAIN mockBudgets :
                   mockBudgets[b].category_id
                       = mockTransactions[index].category_id
                   => /\ mockBudgets'[b].spent =
                             mockBudgets[b].spent
                             - Abs(mockTransactions[index].amount)
                      /\ mockBudgets'[b].remaining =
                             mockBudgets[b].remaining
                             + Abs(mockTransactions[index].amount) ]_vars

\* C14: a budget that budgetsApi.getAll hands out, whose end date is set and
\* whose current period instance starts at or after it, has is_active = false
\* and spent = remaining = 0.
EndedBudgetsInactive ==
    ( ret.api = "apiWithFallback" /\ ret.op = "budgets.getAll"
      /\ ret.outcome = "mock" )
    => \A k \in DOMAIN mockBudgets :
           Ended(mockBudgets[k], Today)
           => /\ ~mockBudgets[k].is_active
              /\ mockBudgets[k].spent = 0
              /\ mockBudgets[k].remaining = 0

\* C19: no stored budget has amount <= 0.
NoBudgetWithoutAmount ==
    \A k \in DOMAIN mockBudgets : mockBudgets[k].amount > 0

MatchingKeywords(k) ==
    { x \in CategoryRules[k].merchant : Contains(Lower(ret.merchant), x) }
    \cup { x \in CategoryRules[k].description :
               Contains(Lower(ret.description), x) }

\* the length of the longest matching keyword of rule k, 0 when none matches
LongestMatch(k) ==
    IF MatchingKeywords(k) = {} THEN 0
    ELSE CHOOSE n \in { Len(x) : x \in MatchingKeywords(k) } :
             \A x \in MatchingKeywords(k) : Len(x) <= n

\* C21: when several categories have a keyword matching the row, the category
\* with the longest matching keyword is returned, and among equally long
\* matches the category that comes first.
LongestKeywordWins ==
    ret.op = "categorize_dutch" =>
        \A k \in DOMAIN CategoryRules :
            ( /\ LongestMatch(k) > 0
              /\ \A j \in DOMAIN CategoryRules :
                     /\ LongestMatch(j) <= LongestMatch(k)
                     /\ j < k => LongestMatch(j) < LongestMatch(k) )
            => ret.category = CategoryRules[k].category


\* C22: a run over a file exports no transaction made from a row whose amount
\* cannot be parsed, and exports the transaction of every row whose amount can
\* be parsed.
UnparseableRowsSkipped ==
    [][ outTransactions' # outTransactions =>
          /\ \A k \in DOMAIN outTransactions' : ~IsNaN(outTransactions'[k])
          /\ \A i \in DOMAIN csvFile :
                 (~csvFile[i].blank /\ csvFile[i].numeric)
                 => \E k \in DOMAIN outTransactions' :
                        outTransactions'[k].id = <<"txn_", now, i>> ]_vars


RemovalDueAfterDuration ==
    \A k \in DOMAIN notifications :
        LET n == notifications[k]
        IN IF AutoRemoved(n)
           THEN \E x \in timeouts : x.id = n.id /\ x.due = n.id + Delay(n)
           ELSE \A x \in timeouts : x.id # n.id


\* C27: over the same transactions the Dashboard and both Transactions pages
\* show the same total expenses, which are not negative, and the same net
\* figure.
TotalsAgree ==
    ret.op = "totals" =>
        /\ ret.dashboard.totalExpenses >= 0
        /\ ret.mui.totalExpenses = ret.dashboard.totalExpenses
        /\ ret.tw.totalExpenses = ret.dashboard.totalExpenses
        /\ ret.mui.totalBalance = ret.dashboard.netSavings
        /\ ret.tw.net = ret.dashboard.netSavings


\* C28: retryCount never exceeds maxRetries; retryCount changes only by a
\* retry, which adds one and clears the error state, or by a page load; and
\* once retryCount has reached maxRetries the error screen offers no retry
\* and stays as it is until the page is loaded anew.
RetryCountBounded ==
    [][ /\ boundary'.retryCount <= maxRetries
        /\ boundary'.retryCount # boundary.retryCount
           => \/ /\ boundary'.retryCount = boundary.retryCount + 1
                 /\ ~boundary'.hasError
                 /\ boundary'.error = "null" /\ ~boundary'.errorInfo
              \/ boundary' = ErrorBoundaryMount(boundary.dev)
        /\ (boundary.hasError /\ boundary.retryCount >= maxRetries)
           => /\ ~Render(boundary, FALSE).retry
              /\ boundary' # boundary
                 => boundary' = ErrorBoundaryMount(boundary.dev) ]_vars

\* C28, the case: after three retries a child has thrown again and the error
\* screen is shown without the retry button.
RetriesExhausted ==
    /\ boundary.hasError /\ boundary.retryCount = maxRetries
    /\ Render(boundary, FALSE).screen = "error"
    /\ ~Render(boundary, FALSE).retry
    /\ Render(boundary, FALSE).maxReached


SystemMessage(handler) ==
    IF handler = "handleDeleteCategory"
    THEN "Systeemcategorieën kunnen niet worden verwijderd"
    ELSE "Systeemcategorieën kunnen niet worden bewerkt"

\* C29: a system category is never removed from the list, never the subject
\* of a delete or update call and never the category being edited; a call of
\* handleDeleteCategory or startEditCategory for one sets the error message
\* and changes nothing else of the page.
SystemCategoriesProtected ==
    [][ /\ \A k \in DOMAIN CategoriesInit :
               CategoriesInit[k].is_system
               => CategoriesInit[k] \in Range(categoriesPage'.categories)
        /\ \A c \in categoriesPage'.called :
               \A k \in DOMAIN CategoriesInit :
                   CategoriesInit[k].is_system => c[2] # CategoriesInit[k].id
        /\ categoriesPage'.editingCategory # <<>>
           => ~categoriesPage'.editingCategory[1].is_system
        /\ ( /\ categoriesPage' # categoriesPage
             /\ categoriesPage'.last.handler
                    \in {"handleDeleteCategory", "startEditCategory"}
             /\ \E k \in DOMAIN CategoriesInit :
                    /\ CategoriesInit[k].is_system
                    /\ CategoriesInit[k].id = categoriesPage'.last.id )
           => categoriesPage' =
                  [categoriesPage EXCEPT
                     !.error = SystemMessage(categoriesPage'.last.handler),
                     !.last = categoriesPage'.last] ]_vars

\* C29, the case: with a delete of a user category awaited and the edit
\* dialog open, handleDeleteCategory was invoked for a system category and
\* answered with its error message.
SystemDeleteRejected ==
    /\ categoriesPage.last = Invoked("handleDeleteCategory", "cat-1")
    /\ categoriesPage.error = SystemMessage("handleDeleteCategory")
    /\ categoriesPage.deleting # {}
    /\ categoriesPage.isEditDialogOpen


====
